---- MODULE Spec2Model ----
(***************************************************************************)
(* A model of github_cloner.py: the GraphQL enumeration of repositories    *)
(* (fetch_all_repositories), the per-repository clone-or-update worker     *)
(* (clone_or_update_repo), the semaphore-bounded driver (run/process_repo),*)
(* the summary (print_summary) and the top-level exit handling.            *)
(*                                                                         *)
(* The module is modelled as the statements of the source read; main()'s   *)
(* `global MAX_CONCURRENT_CLONES` is taken to bind the whole function body *)
(* (CPython >= 3.6 rejects the file at compile time because the name is    *)
(* read on line 232 before the declaration on line 236).                   *)
(***************************************************************************)
EXTENDS Integers, Sequences, FiniteSets, TLC

(* ------------------------------ bounds -------------------------------- *)

\* most pages a paginated collection of the forge is served as
MaxPages == 2
\* most nodes on one page
MaxPageLen == 2
\* largest explicit --concurrent value tried (besides the default)
MaxCap == 2

(* --------------------------- program constants ------------------------ *)

\* MAX_CONCURRENT_CLONES = 8
DEFAULT_MAX_CONCURRENT_CLONES == 8
\* response.status != 200
HTTP_OK == 200
PLACEHOLDER_TOKEN == "YOUR_TOKEN_HERE"

(* ------------------------------ data ---------------------------------- *)

\* Python's None, as a cursor value (a cursor k > 0 reads "after page k")
Null == 0

\* repository nodes as the query selects them: name, nameWithOwner, owner.login
AX == [nameWithOwner |-> "a/x", name |-> "x", owner |-> "a"]
AY == [nameWithOwner |-> "a/y", name |-> "y", owner |-> "a"]
BX == [nameWithOwner |-> "b/x", name |-> "x", owner |-> "b"]
AllNodes == {AX, AY, BX}
OrgLogins == {"a", "b"}
OwnedBy(o) == {n \in AllNodes : n.owner = o}

Range(s) == {s[i] : i \in 1..Len(s)}
NoDup(s) == \A i, j \in 1..Len(s) : i # j => s[i] # s[j]

RECURSIVE Flatten(_)
Flatten(pages) ==
    IF pages = <<>> THEN <<>> ELSE Head(pages) \o Flatten(Tail(pages))

SeqsUpTo(S, n) == UNION {[1..k -> S] : k \in 0..n}

Min(a, b) == IF a <= b THEN a ELSE b

\* the ways to serve the listing s as at most k pages, none empty and none
\* beyond MaxPageLen
RECURSIVE Pagings(_, _)
Pagings(s, k) ==
    IF s = <<>> THEN {<<>>}
    ELSE IF k = 0 THEN {}
    ELSE UNION {{<<SubSeq(s, 1, n)>> \o rest :
                    rest \in Pagings(SubSeq(s, n + 1, Len(s)), k - 1)} :
                n \in 1..Min(MaxPageLen, Len(s))}

\* the pages one collection can be served as: 1..MaxPages pages, no page
\* beyond MaxPageLen, a repository listed once, an empty page only as the
\* single page of an empty collection
Streams(C) ==
    {<<<<>>>>} \cup
    UNION {Pagings(s, MaxPages) :
            s \in {t \in SeqsUpTo(C, Cardinality(C)) : t # <<>> /\ NoDup(t)}}

OrgLists == {s \in SeqsUpTo(OrgLogins, Cardinality(OrgLogins)) : NoDup(s)}

\* what the forge holds: the viewer's repository collection, the viewer's
\* organizations in the order the API lists them, each one's collection
Forges ==
    {[repositories |-> vr, organizations |-> os, orgRepositories |-> orr] :
        vr \in Streams(AllNodes),
        os \in OrgLists,
        orr \in {f \in [OrgLogins -> Streams(AllNodes)] :
                    \A o \in OrgLogins : f[o] \in Streams(OwnedBy(o))}}

\* the transport's answer to one POST: the HTTP status and whether the
\* JSON payload carries an 'errors' key
HttpOutcomes == [status : {HTTP_OK, 500}, errors : BOOLEAN]

VARIABLES
    forge,                  \* the forge's content (external, fixed in a run)
    token,                  \* args.token or GITHUB_TOKEN
    concurrent,             \* args.concurrent
    MAX_CONCURRENT_CLONES,  \* the module global
    pc,                     \* position of the main control flow
    all_repos,              \* fetch_all_repositories: accumulated nodes
    repo_cursor,            \* fetch_all_repositories: personal cursor
    org_cursor,             \* fetch_all_repositories: organization cursor
    org_i,                  \* index of `org` in the for loop of line 111
    viewer,                 \* `viewer` of the last step-1 response
    requests,               \* every POST issued, in order
    repos,                  \* run(): the list fetch_all_repositories returned
    exception,              \* the exception propagating to the top level
    notices,                \* what was printed (the lines the claims name)
    exit_code               \* the process's exit status

enumVars == <<forge, token, concurrent, MAX_CONCURRENT_CLONES, pc, all_repos,
              repo_cursor, org_cursor, org_i, viewer, requests, repos,
              exception, notices, exit_code>>

VARIABLES
    fs,                     \* target_dir: what each local path holds
    semaphore,              \* run(): the asyncio.Semaphore of line 209
    task,                   \* position of each process_repo(repo) coroutine
    result,                 \* clone_or_update_repo: each call's result dict
    seen,                   \* what the existence checks of line 136 saw
    procs,                  \* the git processes each call started
    finished,               \* the calls in the order they returned
    results,                \* run(): what asyncio.gather returned
    summary                 \* print_summary's counters and failure lines

syncVars == <<fs, semaphore, task, result, seen, procs, finished, results,
              summary>>

vars == <<enumVars, syncVars>>

NoException == [type |-> "none", msg |-> ""]
NoViewer ==
    [login |-> "",
     repositories |-> [nodes |-> <<>>,
                       pageInfo |-> [hasNextPage |-> FALSE,
                                     endCursor |-> Null]],
     organizations |-> [nodes |-> <<>>]]

(* --------------------------- the query layer -------------------------- *)

\* one connection's page: repositories(first: 100, after: cursor)
Page(pages, cursor) ==
    IF cursor < Len(pages)
    THEN [nodes |-> pages[cursor + 1],
          pageInfo |-> [hasNextPage |-> cursor + 1 < Len(pages),
                        endCursor |-> cursor + 1]]
    ELSE [nodes |-> <<>>,
          pageInfo |-> [hasNextPage |-> FALSE, endCursor |-> Null]]

\* data['data'] of the query of lines 61-92 for the two cursor variables
QueryData(f, repoCursor, orgCursor) ==
    [viewer |->
        [login |-> "viewer",
         repositories |-> Page(f.repositories, repoCursor),
         organizations |->
            [nodes |->
                [i \in 1..Len(f.organizations) |->
                    [login |-> f.organizations[i],
                     repositories |->
                        Page(f.orgRepositories[f.organizations[i]],
                             orgCursor)]]]]]

\* graphql_query without the check of line 54
graphql_query_no_errors_check(f, repoCursor, orgCursor, http) ==
    IF http.status # HTTP_OK
    THEN [raised |-> TRUE,
          exc |-> [type |-> "Exception", msg |-> "GraphQL query failed"]]
    ELSE [raised |-> FALSE, data |-> QueryData(f, repoCursor, orgCursor)]

\* graphql_query: raises on a non-200 status, then on an 'errors' payload
graphql_query(f, repoCursor, orgCursor, http) ==
    IF http.status # HTTP_OK
    THEN [raised |-> TRUE,
          exc |-> [type |-> "Exception", msg |-> "GraphQL query failed"]]
    ELSE IF http.errors
    THEN [raised |-> TRUE,
          exc |-> [type |-> "Exception", msg |-> "GraphQL errors"]]
    ELSE [raised |-> FALSE, data |-> QueryData(f, repoCursor, orgCursor)]

\* {r['nameWithOwner']: r for r in all_repos} then list(.values()): a key
\* keeps the position of its first node and the value of its last
RECURSIVE DictOf(_, _)
DictOf(d, rest) ==
    IF rest = <<>> THEN d
    ELSE LET r == Head(rest)
             at == {k \in 1..Len(d) : d[k].nameWithOwner = r.nameWithOwner}
         IN  DictOf(IF at = {} THEN Append(d, r)
                    ELSE [d EXCEPT ![CHOOSE k \in at : TRUE] = r],
                    Tail(rest))

\* line 125 keyed by the short name instead
Deduplicate_by_name(nodes) ==
    LET RECURSIVE ByName(_, _)
        ByName(d, rest) ==
            IF rest = <<>> THEN d
            ELSE LET r == Head(rest)
                     at == {k \in 1..Len(d) : d[k].name = r.name}
                 IN  ByName(IF at = {} THEN Append(d, r)
                            ELSE [d EXCEPT ![CHOOSE k \in at : TRUE] = r],
                            Tail(rest))
    IN  ByName(<<>>, nodes)

Deduplicate(nodes) == DictOf(<<>>, nodes)

(* ------------------- main(), run() up to the first query -------------- *)

\* the exception leaves run(), main() and asyncio.run() (lines 239-245)
Raise(e) ==
    /\ exception' = e
    /\ pc' = "raised"

\* main() parses the flags, rebinds the global (line 237) and enters run(),
\* which returns at once on the placeholder token (lines 198-200)
Main ==
    /\ pc = "start"
    /\ MAX_CONCURRENT_CLONES' = concurrent
    /\ IF token = PLACEHOLDER_TOKEN
       THEN /\ notices' = notices \cup {"set GITHUB_TOKEN"}
            /\ pc' = "exited"
            /\ exit_code' = <<0>>
       ELSE /\ pc' = "personal"
            /\ UNCHANGED <<notices, exit_code>>
    /\ UNCHANGED <<forge, token, concurrent, all_repos, repo_cursor,
                   org_cursor, org_i, viewer, requests, repos, exception>>
    /\ UNCHANGED syncVars

(* ----------------------- fetch_all_repositories ----------------------- *)

\* a for statement that leaves after its first organization
ForOrg_first_only(i, orgNodes) ==
    IF i <= Len(orgNodes) /\ i <= 1
    THEN /\ pc' = "orgs"
         /\ org_i' = i
         /\ org_cursor' = Null
    ELSE /\ pc' = "dedup"
         /\ org_i' = i
         /\ UNCHANGED org_cursor

\* the for statement of line 111 at its i-th organization: the next
\* iteration starts with a fresh cursor, the exhausted loop falls to line 125
ForOrg(i, orgNodes) ==
    IF i <= Len(orgNodes)
    THEN /\ pc' = "orgs"
         /\ org_i' = i
         /\ org_cursor' = Null
    ELSE /\ pc' = "dedup"
         /\ org_i' = i
         /\ UNCHANGED org_cursor

\* one iteration of the while loop of lines 98-108
PersonalPage ==
    /\ pc = "personal"
    /\ \E http \in HttpOutcomes :
        LET r == graphql_query(forge, repo_cursor, Null, http) IN
        /\ requests' = Append(requests,
                [loop |-> "viewer", repoCursor |-> repo_cursor,
                 orgCursor |-> Null, status |-> http.status,
                 errors |-> http.errors,
                 read |-> IF r.raised THEN "" ELSE r.data.viewer.login])
        /\ IF r.raised
           THEN /\ Raise(r.exc)
                /\ UNCHANGED <<all_repos, repo_cursor, org_cursor, org_i,
                               viewer>>
           ELSE LET page == r.data.viewer.repositories IN
                /\ viewer' = r.data.viewer
                /\ all_repos' = all_repos \o page.nodes
                /\ IF ~page.pageInfo.hasNextPage
                   THEN /\ ForOrg(1, r.data.viewer.organizations.nodes)
                        /\ UNCHANGED repo_cursor
                   ELSE /\ repo_cursor' = page.pageInfo.endCursor
                        /\ UNCHANGED <<pc, org_cursor, org_i>>
                /\ UNCHANGED exception
    /\ UNCHANGED <<forge, token, concurrent, MAX_CONCURRENT_CLONES, repos,
                   notices, exit_code>>
    /\ UNCHANGED syncVars

\* line 118: the organization whose page an iteration reads
OrgOfIteration(orgs, i) == orgs[1]

\* one iteration of the while loop of lines 113-122, for organization org_i
OrgPage ==
    /\ pc = "orgs"
    /\ \E http \in HttpOutcomes :
        LET r == graphql_query(forge, Null, org_cursor, http) IN
        /\ requests' = Append(requests,
                [loop |-> viewer.organizations.nodes[org_i].login,
                 repoCursor |-> Null, orgCursor |-> org_cursor,
                 status |-> http.status, errors |-> http.errors,
                 read |-> IF r.raised THEN ""
                          ELSE IF r.data.viewer.organizations.nodes = <<>>
                          THEN ""
                          ELSE OrgOfIteration(
                                   r.data.viewer.organizations.nodes,
                                   org_i).login])
        /\ IF r.raised
           THEN /\ Raise(r.exc)
                /\ UNCHANGED <<all_repos, org_cursor, org_i>>
           ELSE LET orgs == r.data.viewer.organizations.nodes IN
                /\ UNCHANGED exception
                /\ IF orgs = <<>>
                   THEN /\ ForOrg(org_i + 1, viewer.organizations.nodes)
                        /\ UNCHANGED all_repos
                   ELSE LET org_repos ==
                                OrgOfIteration(orgs, org_i).repositories IN
                        /\ all_repos' = all_repos \o org_repos.nodes
                        /\ IF ~org_repos.pageInfo.hasNextPage
                           THEN ForOrg(org_i + 1, viewer.organizations.nodes)
                           ELSE /\ org_cursor' = org_repos.pageInfo.endCursor
                                /\ UNCHANGED <<pc, org_i>>
    /\ UNCHANGED <<forge, token, concurrent, MAX_CONCURRENT_CLONES,
                   repo_cursor, viewer, repos, notices, exit_code>>
    /\ UNCHANGED syncVars

\* lines 124-126 and the return into run() (line 203)
Dedup ==
    /\ pc = "dedup"
    /\ repos' = Deduplicate(all_repos)
    /\ pc' = "fetched"
    /\ UNCHANGED <<forge, token, concurrent, MAX_CONCURRENT_CLONES, all_repos,
                   repo_cursor, org_cursor, org_i, viewer, requests,
                   exception, notices, exit_code>>
    /\ UNCHANGED syncVars

(* ------------------------- the top-level handler ---------------------- *)

\* lines 248-250: except Exception -> print, sys.exit(1)
TopLevelExcept ==
    /\ pc = "raised"
    /\ exception.type # "KeyboardInterrupt"
    /\ notices' = notices \cup {"Unexpected error"}
    /\ exit_code' = <<1>>
    /\ pc' = "exited"
    /\ UNCHANGED <<forge, token, concurrent, MAX_CONCURRENT_CLONES, all_repos,
                   repo_cursor, org_cursor, org_i, viewer, requests, repos,
                   exception>>
    /\ UNCHANGED syncVars

(* ------------------- the external tool and the disk ------------------- *)

Paths == {n.name : n \in AllNodes}
\* a local path is absent, a directory without .git, or a checkout
FsStates == {"absent", "dir", "git"}
\* proc.returncode of a finished git process
ExitCodes == {0, 128}
\* the captured error stream: b"f" and the lone byte 0xff
StderrBytes == {<<102>>, <<255>>}
\* create_subprocess_exec starts the process or raises (executable missing)
SpawnOutcomes == {"ok", "raise"}
SpawnError == [type |-> "FileNotFoundError", msg |-> "No such file: git"]

\* a Python str: a literal of the source or of an exception, or the code
\* points a decode produced
StrLit(s) == [lit |-> s, cps |-> <<>>]
StrDecoded(c) == [lit |-> "", cps |-> c]

\* bytes.decode(): strict UTF-8, here for sequences of one- and two-byte
\* encodings (the inputs are drawn from StderrBytes)
RECURSIVE decode(_)
decode(b) ==
    IF b = <<>> THEN [ok |-> TRUE, cps |-> <<>>]
    ELSE IF b[1] < 128
    THEN LET r == decode(Tail(b)) IN
         [ok |-> r.ok, cps |-> <<b[1]>> \o r.cps]
    ELSE IF /\ b[1] >= 194 /\ b[1] <= 223 /\ Len(b) >= 2
            /\ b[2] >= 128 /\ b[2] <= 191
    THEN LET r == decode(Tail(Tail(b))) IN
         [ok |-> r.ok, cps |-> <<(b[1] - 192) * 64 + (b[2] - 128)>> \o r.cps]
    ELSE [ok |-> FALSE, cps |-> <<>>]

DecodeError == [type |-> "UnicodeDecodeError", msg |-> "invalid start byte"]

(* ------------------------ clone_or_update_repo ------------------------ *)

NoError == [present |-> FALSE, str |-> StrLit("")]
NoResult == [name |-> "", status |-> "", path |-> "", error |-> NoError]

\* line 131
InitialResult(repo) ==
    [name |-> repo.nameWithOwner, status |-> "unknown", path |-> repo.name,
     error |-> NoError]

\* line 136 without the .git test
TakesUpdateBranch_exists_only(st) == st # "absent"

\* line 136: repo_path.exists() and (repo_path / '.git').exists()
TakesUpdateBranch(st) == st = "git"

\* lines 174-176 without the status assignment
OnException_keeps_status(res, e) ==
    [res EXCEPT !.error = [present |-> TRUE, str |-> StrLit(e.msg)]]

\* lines 174-176
OnException(res, e) ==
    [res EXCEPT !.status = "error",
                !.error = [present |-> TRUE, str |-> StrLit(e.msg)]]

\* lines 154-158 (the decode of line 158 may raise into lines 174-176)
AfterPull(res, returncode, stderr) ==
    IF returncode = 0
    THEN [res EXCEPT !.status = "updated"]
    ELSE IF decode(stderr).ok
    THEN [res EXCEPT !.status = "update_failed",
                     !.error = [present |-> TRUE,
                                str |-> StrDecoded(decode(stderr).cps)]]
    ELSE OnException([res EXCEPT !.status = "update_failed"], DecodeError)

\* lines 168-172 (the decode of line 172 may raise into lines 174-176)
AfterClone(res, returncode, stderr) ==
    IF returncode = 0
    THEN [res EXCEPT !.status = "cloned"]
    ELSE IF decode(stderr).ok
    THEN [res EXCEPT !.status = "clone_failed",
                     !.error = [present |-> TRUE,
                                str |-> StrDecoded(decode(stderr).cps)]]
    ELSE OnException([res EXCEPT !.status = "clone_failed"], DecodeError)

(* ----------------------------- print_summary -------------------------- *)

\* 'failed' in r['status'] alone
IsFailure_only_failed(status) ==
    status \in {"clone_failed", "update_failed"}

\* 'failed' in r['status'] or r['status'] == 'error'
IsFailure(status) ==
    status \in {"clone_failed", "update_failed", "error"}

\* sum(1 for r in results if <r['status'] is one of statuses>)
CountStatus(rs, statuses) ==
    Cardinality({i \in 1..Len(rs) : rs[i].status \in statuses})

RECURSIVE FailureLines(_)
FailureLines(rs) ==
    IF rs = <<>> THEN <<>>
    ELSE LET r == Head(rs) IN
         (IF IsFailure(r.status)
          THEN <<[name |-> r.name,
                  detail |-> IF r.error.present THEN r.error.str
                             ELSE StrLit("Unknown error")]>>
          ELSE <<>>) \o FailureLines(Tail(rs))

NoSummary ==
    [printed |-> FALSE, cloned |-> 0, updated |-> 0, failed |-> 0,
     lines |-> <<>>]

print_summary(rs) ==
    LET failed == Cardinality({i \in 1..Len(rs) : IsFailure(rs[i].status)})
    IN  [printed |-> TRUE,
         cloned |-> CountStatus(rs, {"cloned"}),
         updated |-> CountStatus(rs, {"updated"}),
         failed |-> failed,
         lines |-> IF failed # 0 THEN FailureLines(rs) ELSE <<>>]

(* ------------------------- run(): the sync phase ---------------------- *)

NoSemaphore == [created |-> FALSE, value |-> 0, waiters |-> <<>>]

\* asyncio.Semaphore(value): ValueError below zero
SemaphoreRejects(value) == value < 0

\* locked() that lets one more through
Locked_off_by_one(sem) == sem.value < 0 \/ sem.waiters # <<>>

\* Semaphore.locked(): no permit left, or somebody already queued
Locked(sem) == sem.value = 0 \/ sem.waiters # <<>>

\* an exit path that leaves `async with` without giving the permit back
Released_not(sem) ==
    IF sem.waiters = <<>>
    THEN sem
    ELSE [sem EXCEPT !.waiters = Tail(@)]

\* Semaphore.release(): the permit goes to the first waiter if there is one
Released(sem) ==
    IF sem.waiters = <<>>
    THEN [sem EXCEPT !.value = @ + 1]
    ELSE [sem EXCEPT !.waiters = Tail(@)]

enumFrame ==
    UNCHANGED <<forge, token, concurrent, MAX_CONCURRENT_CLONES, all_repos,
                repo_cursor, org_cursor, org_i, viewer, requests, repos>>

\* a run that treats an empty list like any other
NothingToSync_never(rs) == FALSE

\* line 205: `if not repos`
NothingToSync(rs) == rs = <<>>

\* lines 204-224 up to the await of gather: the empty list returns, the
\* semaphore is built, one process_repo coroutine per repository is created
StartSync ==
    /\ pc = "fetched"
    /\ IF NothingToSync(repos)
       THEN /\ notices' = notices \cup {"No repositories found"}
            /\ pc' = "exited"
            /\ exit_code' = <<0>>
            /\ UNCHANGED <<exception, syncVars>>
       ELSE IF SemaphoreRejects(MAX_CONCURRENT_CLONES)
       THEN /\ Raise([type |-> "ValueError",
                      msg |-> "Semaphore initial value must be >= 0"])
            /\ UNCHANGED <<notices, exit_code, syncVars>>
       ELSE /\ semaphore' = [created |-> TRUE,
                             value |-> MAX_CONCURRENT_CLONES,
                             waiters |-> <<>>]
            /\ task' = [i \in 1..Len(repos) |-> "created"]
            /\ result' = [i \in 1..Len(repos) |-> NoResult]
            /\ seen' = [i \in 1..Len(repos) |-> ""]
            /\ procs' = [i \in 1..Len(repos) |-> <<>>]
            /\ pc' = "gather"
            /\ UNCHANGED <<exception, notices, exit_code, fs, finished,
                           results, summary>>
    /\ enumFrame

\* clone_or_update_repo returns (line 178), process_repo prints the line and
\* leaves `async with` (lines 212-222): the permit is released
Return(i, sem, res) ==
    /\ result' = [result EXCEPT ![i] = res]
    /\ finished' = Append(finished, i)
    /\ semaphore' = Released(sem)
    /\ task' = IF sem.waiters = <<>>
               THEN [task EXCEPT ![i] = "done"]
               ELSE [task EXCEPT ![i] = "done",
                                 ![Head(sem.waiters)] = "granted"]

\* clone_or_update_repo from line 129 to its first git process (line 138 or
\* 161), holding a permit of sem
Enter(i, sem, spawn) ==
    LET repo == repos[i]
        st == fs[repo.name]
        cmd == IF TakesUpdateBranch(st) THEN "fetch" ELSE "clone"
    IN  /\ seen' = [seen EXCEPT ![i] = st]
        /\ procs' = [procs EXCEPT ![i] =
                        Append(@, [cmd |-> cmd, returncode |-> <<>>])]
        /\ IF spawn = "ok"
           THEN /\ task' = [task EXCEPT ![i] = cmd]
                /\ result' = [result EXCEPT ![i] = InitialResult(repo)]
                /\ semaphore' = sem
                /\ UNCHANGED finished
           ELSE Return(i, sem, OnException(InitialResult(repo), SpawnError))

syncFrame ==
    /\ enumFrame
    /\ UNCHANGED <<pc, exception, notices, exit_code, results, summary>>

\* process_repo(repos[i]) runs to its first suspension: it takes a permit
\* and enters clone_or_update_repo, or queues on the semaphore
Begin(i) ==
    /\ pc = "gather"
    /\ task[i] = "created"
    /\ \A j \in 1..(i - 1) : task[j] # "created"
    /\ IF ~Locked(semaphore)
       THEN \E spawn \in SpawnOutcomes :
                Enter(i, [semaphore EXCEPT !.value = @ - 1], spawn)
       ELSE /\ task' = [task EXCEPT ![i] = "waiting"]
            /\ semaphore' = [semaphore EXCEPT !.waiters = Append(@, i)]
            /\ UNCHANGED <<result, seen, procs, finished>>
    /\ UNCHANGED fs
    /\ syncFrame

\* a waiter that was handed a permit resumes
Resume(i) ==
    /\ pc = "gather"
    /\ task[i] = "granted"
    /\ \E spawn \in SpawnOutcomes : Enter(i, semaphore, spawn)
    /\ UNCHANGED fs
    /\ syncFrame

Exited(ps, returncode) ==
    [ps EXCEPT ![Len(ps)].returncode = <<returncode>>]

\* line 144 returns: fetch has exited, whatever its code; pull is started
FetchExit(i) ==
    /\ pc = "gather"
    /\ task[i] = "fetch"
    /\ \E returncode \in ExitCodes, spawn \in SpawnOutcomes :
        /\ procs' = [procs EXCEPT ![i] =
                Append(Exited(@, returncode),
                       [cmd |-> "pull", returncode |-> <<>>])]
        /\ IF spawn = "ok"
           THEN /\ task' = [task EXCEPT ![i] = "pull"]
                /\ UNCHANGED <<result, semaphore, finished>>
           ELSE Return(i, semaphore, OnException(result[i], SpawnError))
    /\ UNCHANGED <<fs, seen>>
    /\ syncFrame

\* line 152 returns: pull has exited
PullExit(i) ==
    /\ pc = "gather"
    /\ task[i] = "pull"
    /\ \E returncode \in ExitCodes, stderr \in StderrBytes :
        /\ procs' = [procs EXCEPT ![i] = Exited(@, returncode)]
        /\ Return(i, semaphore, AfterPull(result[i], returncode, stderr))
    /\ UNCHANGED <<fs, seen>>
    /\ syncFrame

\* line 166 returns: clone has exited; a successful clone leaves a checkout
CloneExit(i) ==
    /\ pc = "gather"
    /\ task[i] = "clone"
    /\ \E returncode \in ExitCodes, stderr \in StderrBytes :
        /\ procs' = [procs EXCEPT ![i] = Exited(@, returncode)]
        /\ fs' = IF returncode = 0
                 THEN [fs EXCEPT ![repos[i].name] = "git"]
                 ELSE fs
        /\ Return(i, semaphore, AfterClone(result[i], returncode, stderr))
    /\ UNCHANGED seen
    /\ syncFrame

\* results collected as the calls return (as asyncio.as_completed would)
Gathered_as_completed(res) ==
    [k \in 1..Len(finished) |-> res[finished[k]]]

\* line 224: gather hands back the results in the order of its arguments
Gathered(res) == [i \in 1..Len(res) |-> res[i]]

\* the exit status made to follow the failure counter
StatusAfterSummary_counts_failures(s) ==
    IF s.failed # 0 THEN <<1>> ELSE <<0>>

\* after print_summary (line 225) run(), main() and asyncio.run() return and
\* the script ends: the counters do not reach the exit status
StatusAfterSummary(s) == <<0>>

\* lines 224-225, then run(), main() and asyncio.run() return
GatherReturn ==
    /\ pc = "gather"
    /\ \A i \in 1..Len(task) : task[i] = "done"
    /\ results' = Gathered(result)
    /\ summary' = print_summary(Gathered(result))
    /\ pc' = "exited"
    /\ exit_code' = StatusAfterSummary(print_summary(Gathered(result)))
    /\ UNCHANGED <<exception, notices, fs, semaphore, task, result, seen,
                   procs, finished>>
    /\ enumFrame

(* ---------------------------- specifications -------------------------- *)

Tokens == {PLACEHOLDER_TOKEN, "ghp"}
\* --concurrent: any integer is accepted (type=int), or the default
Concurrents == (-1..MaxCap) \cup {DEFAULT_MAX_CONCURRENT_CLONES}

InitProgram ==
    /\ MAX_CONCURRENT_CLONES = DEFAULT_MAX_CONCURRENT_CLONES
    /\ pc = "start"
    /\ all_repos = <<>>
    /\ repo_cursor = Null
    /\ org_cursor = Null
    /\ org_i = 0
    /\ viewer = NoViewer
    /\ requests = <<>>
    /\ repos = <<>>
    /\ exception = NoException
    /\ notices = {}
    /\ exit_code = <<>>
    /\ semaphore = NoSemaphore
    /\ task = <<>>
    /\ result = <<>>
    /\ seen = <<>>
    /\ procs = <<>>
    /\ finished = <<>>
    /\ results = <<>>
    /\ summary = NoSummary

Enumerate == Main \/ PersonalPage \/ OrgPage \/ Dedup \/ TopLevelExcept

Tasks == 1..Len(task)

Next ==
    \/ Main
    \/ PersonalPage
    \/ OrgPage
    \/ Dedup
    \/ TopLevelExcept
    \/ StartSync
    \/ \E i \in Tasks : Begin(i)
    \/ \E i \in Tasks : Resume(i)
    \/ \E i \in Tasks : FetchExit(i)
    \/ \E i \in Tasks : PullExit(i)
    \/ \E i \in Tasks : CloneExit(i)
    \/ GatherReturn

\* the accounts the whole run is explored on: one without repositories; one
\* whose personal collection comes as two pages and whose organization b
\* adds b/x; one whose two organizations repeat what the personal page lists
EmptyAccount ==
    [repositories |-> <<<<>>>>, organizations |-> <<>>,
     orgRepositories |-> [o \in OrgLogins |-> <<<<>>>>]]
PagedAccount ==
    [repositories |-> <<<<AX>>, <<AY>>>>, organizations |-> <<"b">>,
     orgRepositories |-> [o \in OrgLogins |->
                            IF o = "b" THEN <<<<BX>>>> ELSE <<<<>>>>]]
SharedAccount ==
    [repositories |-> <<<<AX, BX>>>>, organizations |-> <<"a", "b">>,
     orgRepositories |-> [o \in OrgLogins |->
                            IF o = "a" THEN <<<<AX>>, <<AY>>>>
                            ELSE <<<<BX>>>>]]
Accounts == {EmptyAccount, PagedAccount, SharedAccount}

\* the whole run: any flag value, any state of the target directory
Init ==
    /\ forge \in Accounts
    /\ token \in Tokens
    /\ concurrent \in Concurrents
    /\ fs \in [Paths -> FsStates]
    /\ InitProgram

Spec == Init /\ [][Next]_vars

\* the event loop runs whatever is ready, every request is answered and
\* every git process exits
FairSpec == Spec /\ WF_vars(Next)

\* the enumeration alone, over every forge within the bounds
InitEnum ==
    /\ forge \in Forges
    /\ token = "ghp"
    /\ concurrent = DEFAULT_MAX_CONCURRENT_CLONES
    /\ fs = [p \in Paths |-> "absent"]
    /\ InitProgram

SpecEnum == InitEnum /\ [][Enumerate]_vars

(* --------------------------- user interruption ------------------------ *)

\* Ctrl-C while asyncio.run(main()) is running: KeyboardInterrupt leaves
\* asyncio.run (line 245); whatever the run had reached stays as it is
Interrupt ==
    /\ pc \notin {"raised", "exited"}
    /\ Raise([type |-> "KeyboardInterrupt", msg |-> ""])
    /\ UNCHANGED <<forge, token, concurrent, MAX_CONCURRENT_CLONES, all_repos,
                   repo_cursor, org_cursor, org_i, viewer, requests, repos,
                   notices, exit_code>>
    /\ UNCHANGED syncVars

\* lines 246-247: except KeyboardInterrupt -> print; the script then ends,
\* which is exit status 0
TopLevelInterrupt ==
    /\ pc = "raised"
    /\ exception.type = "KeyboardInterrupt"
    /\ notices' = notices \cup {"Interrupted by user"}
    /\ exit_code' = <<0>>
    /\ pc' = "exited"
    /\ UNCHANGED <<forge, token, concurrent, MAX_CONCURRENT_CLONES, all_repos,
                   repo_cursor, org_cursor, org_i, viewer, requests, repos,
                   exception>>
    /\ UNCHANGED syncVars

NextInterrupt == Next \/ Interrupt \/ TopLevelInterrupt

\* the whole run, with the user free to interrupt it at any point
SpecInterrupt == Init /\ [][NextInterrupt]_vars

(* ------------------------------ properties ---------------------------- *)

Names(s) == {s[i].nameWithOwner : i \in 1..Len(s)}
PagesNames(pages) == Names(Flatten(pages))
Discovered == Range(forge.organizations)

\* C1: once fetch_all_repositories has returned, every repository on every
\* page of every discovered organization's collection is in the returned list
C1_EveryOrgRepositoryReturned ==
    pc = "fetched" =>
        \A o \in Discovered :
            PagesNames(forge.orgRepositories[o]) \subseteq Names(repos)

InFlight == {i \in Tasks : task[i] \in {"fetch", "pull", "clone"}}

\* C2: with a cap C = --concurrent, 1 <= C < N descriptors, never more than
\* C clone_or_update_repo calls have started and not yet returned
C2_ConcurrencyCap ==
    (pc = "gather" /\ concurrent >= 1 /\ concurrent < Len(repos)) =>
        Cardinality(InFlight) <= concurrent

\* C2 witness: the cap is reached while another descriptor waits its turn
C2_Witness ==
    /\ pc = "gather"
    /\ concurrent >= 1
    /\ concurrent < Len(repos)
    /\ Cardinality(InFlight) = concurrent
    /\ \E i \in Tasks : task[i] = "waiting"

\* C3: for every accepted --concurrent value and every non-empty list, the
\* run that got the list goes on to print the summary (every descriptor is
\* processed and gather returns)
C3_EveryDescriptorProcessed ==
    (pc = "fetched" /\ repos # <<>>) ~> summary.printed

\* the call for descriptor i ended in the handler of lines 174-176 because
\* its last git process could not be started
SpawnFailed(i) ==
    /\ task[i] = "done"
    /\ procs[i][Len(procs[i])].returncode = <<>>

\* C4: the sync phase yields one result per descriptor, each descriptor's
\* nameWithOwner echoed by exactly one result; no exception of a worker
\* reaches the top level; a start failure gives status error with the
\* exception's message as the detail
C4_OneResultPerDescriptor ==
    /\ exception.type \notin {SpawnError.type, DecodeError.type}
    /\ \A i \in Tasks :
        SpawnFailed(i) =>
            /\ result[i].status = "error"
            /\ result[i].error = [present |-> TRUE,
                                  str |-> StrLit(SpawnError.msg)]
    /\ summary.printed =>
        /\ Len(results) = Len(repos)
        /\ \A i \in 1..Len(repos) :
            Cardinality({k \in 1..Len(results) :
                results[k].name = repos[i].nameWithOwner}) = 1

\* C4 witness: a finished run that mixed a start failure, a non-zero exit
\* and a success
C4_Witness ==
    /\ summary.printed
    /\ Len(repos) = 3
    /\ \E i \in Tasks : SpawnFailed(i)
    /\ \E i \in Tasks : results[i].status = "clone_failed"
    /\ \E i \in Tasks : results[i].status = "cloned"

FailedRequest ==
    \E k \in 1..Len(requests) :
        requests[k].status # HTTP_OK \/ requests[k].errors

\* C5: after a page request answered with a non-200 status or an errors
\* payload, the exception is on its way to the top level or the process has
\* exited with status 1; run() holds no list and nothing of the sync phase
\* exists
C5_EnumerationFailureIsFatal ==
    FailedRequest =>
        /\ pc \in {"raised", "exited"}
        /\ exception.type = "Exception"
        /\ repos = <<>>
        /\ ~semaphore.created
        /\ task = <<>>
        /\ procs = <<>>
        /\ results = <<>>
        /\ ~summary.printed
        /\ pc = "exited" => exit_code = <<1>>

\* C5 witness: a request of an organization's loop failed after pages had
\* been accumulated, and the process has exited
C5_Witness ==
    /\ FailedRequest
    /\ pc = "exited"
    /\ all_repos # <<>>
    /\ requests[Len(requests)].loop # "viewer"
    /\ requests[Len(requests)].errors

\* C6: the returned list holds each accumulated nameWithOwner exactly once
C6_OnePerNameWithOwner ==
    pc = "fetched" =>
        /\ Names(repos) = Names(all_repos)
        /\ \A i, j \in 1..Len(repos) :
            i # j => repos[i].nameWithOwner # repos[j].nameWithOwner

\* C6 witness: three distinct repositories survive a pool that held repeats
C6_Witness ==
    /\ pc = "fetched"
    /\ Len(repos) = 3
    /\ Len(all_repos) > Len(repos)

\* the requests one pagination loop issued, and the cursor each carried
LoopRequests(l) == SelectSeq(requests, LAMBDA q : q.loop = l)
CursorOf(q) == IF q.loop = "viewer" THEN q.repoCursor ELSE q.orgCursor
Source(l) ==
    IF l = "viewer" THEN forge.repositories ELSE forge.orgRepositories[l]

\* K requests for a source of K pages: the first with a null cursor, each
\* later one with the endCursor of the response before it, none after the
\* first response without a next page
WalkedOnce(l) ==
    LET rs == LoopRequests(l)
        pages == Source(l)
    IN  /\ Len(rs) = Len(pages)
        /\ CursorOf(rs[1]) = Null
        /\ \A k \in 2..Len(rs) :
            CursorOf(rs[k]) =
                Page(pages, CursorOf(rs[k - 1])).pageInfo.endCursor
        /\ \A k \in 1..Len(rs) :
            Page(pages, CursorOf(rs[k])).pageInfo.hasNextPage <=> k < Len(rs)

\* C7: every paginated source of K pages (the personal collection, each
\* discovered organization's) is walked with exactly K requests in cursor
\* order, and the returned list is as long as the distinct nameWithOwner
\* values on all pages
C7_PaginationTermination ==
    pc = "fetched" =>
        /\ \A l \in {"viewer"} \cup Discovered : WalkedOnce(l)
        /\ Len(repos) =
            Cardinality(UNION {PagesNames(Source(l)) :
                                l \in {"viewer"} \cup Discovered})

\* C8: a call that found a checkout at its path never starts clone, a call
\* that found nothing there never starts fetch or pull, and a directory
\* without .git is cloned into
C8_BranchSelection ==
    \A i \in Tasks :
        LET cmds == {procs[i][k].cmd : k \in 1..Len(procs[i])} IN
        /\ seen[i] = "git" => "clone" \notin cmds
        /\ seen[i] = "absent" => cmds \cap {"fetch", "pull"} = {}
        /\ seen[i] = "dir" => cmds = {"clone"}
        /\ seen[i] = "" => cmds = {}

\* C8 witness: in one run a checkout was pulled, a missing path was cloned
\* and a bare directory was cloned into
C8_Witness ==
    /\ \E i \in Tasks :
        /\ seen[i] = "git"
        /\ \E k \in 1..Len(procs[i]) :
            procs[i][k] = [cmd |-> "pull", returncode |-> <<0>>]
    /\ \E i \in Tasks :
        /\ seen[i] = "absent"
        /\ procs[i] = <<[cmd |-> "clone", returncode |-> <<0>>]>>
    /\ \E i \in Tasks :
        /\ seen[i] = "dir"
        /\ task[i] = "done"

\* the last git process of call i was cmd and exited with a code in codes
LastExit(i, cmd, codes) ==
    /\ procs[i] # <<>>
    /\ procs[i][Len(procs[i])].cmd = cmd
    /\ procs[i][Len(procs[i])].returncode \in {<<c>> : c \in codes}

\* C9: a returned result has one of the five statuses, fixed by the last
\* process's exit code (pull 0 updated, pull non-zero update_failed, clone 0
\* cloned, clone non-zero clone_failed), and has an error detail exactly
\* when the status is clone_failed, update_failed or error
C9_StatusClassification ==
    \A i \in Tasks :
        task[i] = "done" =>
            /\ result[i].status \in {"cloned", "updated", "clone_failed",
                                     "update_failed", "error"}
            /\ LastExit(i, "pull", {0}) => result[i].status = "updated"
            /\ LastExit(i, "pull", ExitCodes \ {0}) =>
                    result[i].status = "update_failed"
            /\ LastExit(i, "clone", {0}) => result[i].status = "cloned"
            /\ LastExit(i, "clone", ExitCodes \ {0}) =>
                    result[i].status = "clone_failed"
            /\ result[i].error.present <=> IsFailure(result[i].status)

\* the run of the three descriptors a/x, a/y, b/x in which a/x was found as
\* a checkout and pulled with exit 0, a/y was found missing and cloned with
\* exit 0, every process started was started fine, and any clone of b/x
\* exited with 128
ScenarioRun ==
    /\ summary.printed
    /\ Names(repos) = {"a/x", "a/y", "b/x"}
    /\ \A i \in Tasks :
        /\ ~SpawnFailed(i)
        /\ repos[i] = AX => seen[i] = "git" /\ LastExit(i, "pull", {0})
        /\ repos[i] = AY => seen[i] = "absent" /\ LastExit(i, "clone", {0})
        /\ repos[i] = BX =>
            \A k \in 1..Len(procs[i]) :
                procs[i][k].cmd = "clone" =>
                    procs[i][k].returncode = <<128>>

\* C10: that run's summary is cloned=1, updated=1, failed=1, and its only
\* failure line is b/x with the text of its error stream
C10_ScenarioSummary ==
    ScenarioRun =>
        /\ summary.cloned = 1
        /\ summary.updated = 1
        /\ summary.failed = 1
        /\ Len(summary.lines) = 1
        /\ summary.lines[1].name = "b/x"
        /\ summary.lines[1].detail.lit = ""

\* C11: a run ended by KeyboardInterrupt has printed the interruption notice
\* and exits with a non-zero status
C11_InterruptExitsNonZero ==
    (pc = "exited" /\ exception.type = "KeyboardInterrupt") =>
        /\ "Interrupted by user" \in notices
        /\ exit_code # <<0>>

\* some call has returned a failure result
SomeFailed ==
    \E i \in Tasks :
        /\ task[i] = "done"
        /\ result[i].status \in {"clone_failed", "update_failed", "error"}

\* C12: once a repository has ended clone_failed, update_failed or error, no
\* exception is on its way to the top level, the run is still gathering or
\* has exited, and it exits only with every descriptor processed, the
\* summary printed and status 0
C12_SyncFailuresAreData ==
    SomeFailed =>
        /\ exception = NoException
        /\ pc \in {"gather", "exited"}
        /\ pc = "exited" =>
            /\ \A i \in Tasks : task[i] = "done"
            /\ summary.printed
            /\ exit_code = <<0>>

\* C12 witness: a run whose three repositories ended in the three failure
\* statuses has exited
C12_Witness ==
    /\ pc = "exited"
    /\ summary.failed = 3
    /\ {results[k].status : k \in 1..Len(results)} =
            {"clone_failed", "update_failed", "error"}

\* C13 as stated: the collected results are in the order in which the
\* per-repository operations completed
C13_ResultsInCompletionOrder ==
    summary.printed =>
        \A k \in 1..Len(results) :
            results[k].name = repos[finished[k]].nameWithOwner

\* C13 as the code has it: the collected results are in the order of the
\* input descriptors, whatever the completion order
C13_ResultsInInputOrder ==
    summary.printed =>
        /\ Len(results) = Len(repos)
        /\ \A k \in 1..Len(results) :
            /\ results[k] = result[k]
            /\ results[k].name = repos[k].nameWithOwner

\* C13 witness: a finished run of three in which the last descriptor
\* completed first
C13_Witness ==
    /\ summary.printed
    /\ Len(finished) = 3
    /\ finished[1] = 3

\* enumeration returned its list: requests were made and none failed
EnumerationSucceeded ==
    /\ pc \in {"fetched", "gather", "exited"}
    /\ requests # <<>>
    /\ ~FailedRequest

\* C14: when enumeration succeeds with zero repositories no semaphore is
\* created and no git process is started, the run reports that no
\* repositories were found and exits zero; a transport failure never gives
\* that report and never exits zero
C14_EmptyListIsNotAnError ==
    /\ (EnumerationSucceeded /\ repos = <<>>) =>
        /\ ~semaphore.created
        /\ task = <<>>
        /\ procs = <<>>
        /\ exception = NoException
        /\ ~summary.printed
        /\ pc = "exited" =>
            /\ "No repositories found" \in notices
            /\ exit_code = <<0>>
    /\ "No repositories found" \in notices =>
        /\ EnumerationSucceeded
        /\ repos = <<>>
    /\ FailedRequest =>
        /\ "No repositories found" \notin notices
        /\ exit_code # <<0>>

\* C14 witness: an account with no repository at all was enumerated and the
\* run ended
C14_Witness ==
    /\ pc = "exited"
    /\ requests # <<>>
    /\ ~FailedRequest
    /\ repos = <<>>
    /\ "No repositories found" \in notices

\* C15: the pagination loop run for organization O reads and accumulates
\* only pages of O's own repository collection
C15_OrgLoopScopedToItsOrg ==
    \A k \in 1..Len(requests) :
        (requests[k].loop # "viewer" /\ requests[k].read # "") =>
            requests[k].read = requests[k].loop

\* C16: two in-flight clone_or_update_repo invocations for distinct
\* descriptors never operate on the same local path
C16_DistinctLocalDirectories ==
    \A i, j \in InFlight :
        result[i].name # result[j].name => result[i].path # result[j].path

\* the process_repo calls that hold a permit: inside `async with`, or woken
\* with the permit handed over
Holders == {i \in Tasks : task[i] \in {"granted", "fetch", "pull", "clone"}}

\* C17: free permits plus the operations holding one equal the cap in every
\* state, every finished descriptor has given its permit back, and when the
\* sync phase ends all permits are free and nobody waits
C17_SemaphoreBalance ==
    semaphore.created =>
        /\ semaphore.value >= 0
        /\ semaphore.value + Cardinality(Holders) = MAX_CONCURRENT_CLONES
        /\ \A i \in Tasks : task[i] = "done" => i \notin Holders
        /\ \A k \in 1..Len(semaphore.waiters) :
                task[semaphore.waiters[k]] = "waiting"
        /\ summary.printed =>
            /\ semaphore.value = MAX_CONCURRENT_CLONES
            /\ semaphore.waiters = <<>>

\* C17 witness: the sync phase of three descriptors under a cap of 2 ended
\* with one normal result, one failure result and one exception
C17_Witness ==
    /\ summary.printed
    /\ MAX_CONCURRENT_CLONES = 2
    /\ semaphore.value = 2
    /\ Len(results) = 3
    /\ \E i \in Tasks : SpawnFailed(i)
    /\ \E i \in Tasks : results[i].status \in {"cloned", "updated"}
    /\ \E i \in Tasks : results[i].status \in {"clone_failed", "update_failed"}

\* the descriptors whose invocation took the update branch
Updating == {i \in Tasks : procs[i] # <<>> /\ procs[i][1].cmd = "fetch"}

\* C18: on the update branch fetch is started first and awaited before pull,
\* pull is started whatever exit code fetch returned, and once pull has
\* exited the status is updated or update_failed by pull's exit code alone,
\* with an error detail exactly in the second case
C18_FetchIsSwallowed ==
    \A i \in Updating :
        /\ task[i] = "fetch" =>
            /\ Len(procs[i]) = 1
            /\ procs[i][1].returncode = <<>>
            /\ result[i].status = "unknown"
        /\ Len(procs[i]) > 1 =>
            /\ Len(procs[i]) = 2
            /\ procs[i][1].returncode # <<>>
            /\ procs[i][2].cmd = "pull"
        /\ (task[i] = "done" /\ procs[i][1].returncode # <<>>) =>
            /\ Len(procs[i]) = 2
            /\ procs[i][2].returncode # <<>> =>
                /\ result[i].status =
                        IF procs[i][2].returncode = <<0>>
                        THEN "updated" ELSE "update_failed"
                /\ result[i].error.present <=>
                        procs[i][2].returncode # <<0>>

\* some clone, fetch or pull was started
SyncStarted == \E i \in 1..Len(procs) : procs[i] # <<>>

\* fetch_all_repositories ran both loops to their end without a failed
\* request and returned the deduplicated list
ListReturned ==
    /\ EnumerationSucceeded
    /\ org_i = Len(viewer.organizations.nodes) + 1
    /\ {requests[k].loop : k \in 1..Len(requests)} =
            {"viewer"} \cup {viewer.organizations.nodes[k].login :
                                k \in 1..Len(viewer.organizations.nodes)}
    /\ NoDup([k \in 1..Len(repos) |-> repos[k].nameWithOwner])
    /\ Names(repos) = Names(all_repos)

\* this step starts a git process
StartsProcess ==
    \E i \in 1..Len(procs') :
        Len(procs'[i]) > IF i <= Len(procs) THEN Len(procs[i]) ELSE 0

\* C19: no clone, fetch or pull is started before fetch_all_repositories
\* has returned the complete deduplicated list, and no GraphQL request is
\* issued (nor the list changed) once the sync phase has begun
C19_TwoStagePipeline ==
    /\ [](SyncStarted => (pc \in {"gather", "exited"} /\ ListReturned))
    /\ [][/\ StartsProcess => (pc = "gather" /\ ListReturned)
          /\ (semaphore.created \/ SyncStarted) =>
                (requests' = requests /\ repos' = repos)]_vars

\* C19 witness: a run that needed five requests went on to synchronise
\* three descriptors and ended
C19_Witness ==
    /\ pc = "exited"
    /\ Len(requests) = 5
    /\ Len(repos) = 3
    /\ \A i \in 1..Len(procs) : procs[i] # <<>>

\* the positions of the collected results with a failure status
Failing ==
    {k \in 1..Len(results) :
        results[k].status \in {"clone_failed", "update_failed", "error"}}

\* C20: the three counters of the summary partition the results (one per
\* input descriptor), failed counts exactly the results with status
\* clone_failed, update_failed or error, and when failed > 0 each of them
\* is listed once, in order, with its name and error detail
C20_SummaryPartition ==
    summary.printed =>
        /\ Len(results) = Len(repos)
        /\ summary.cloned + summary.updated + summary.failed = Len(results)
        /\ summary.cloned =
              Cardinality({k \in 1..Len(results) :
                              results[k].status = "cloned"})
        /\ summary.updated =
              Cardinality({k \in 1..Len(results) :
                              results[k].status = "updated"})
        /\ summary.failed = Cardinality(Failing)
        /\ Len(summary.lines) = Cardinality(Failing)
        /\ \A k \in Failing :
              LET j == Cardinality({m \in Failing : m <= k}) IN
              /\ results[k].error.present
              /\ summary.lines[j] = [name |-> results[k].name,
                                     detail |-> results[k].error.str]

\* C20 witness: a summary of three results with one cloned, one failed
\* with its decoded detail and one in error
C20_Witness ==
    /\ summary.printed
    /\ summary.cloned = 1
    /\ summary.failed = 2
    /\ Len(summary.lines) = 2
    /\ \E k \in Failing : results[k].status = "error"
    /\ \E k \in Failing : results[k].error.str.cps # <<>>

====
